---- MODULE Spec2Model ----
(***************************************************************************)
(* Model of ShipControlWsClient (src/src/index.ts, lines 154-448): the     *)
(* WebSocket session (connect, disconnect, the open/message/close/error    *)
(* handlers, the heartbeat and request intervals, the reconnect timeout)   *)
(* and the frame handling (handleMessage down to the listener dispatch).   *)
(***************************************************************************)
EXTENDS Integers, Sequences, FiniteSets, TLC

\* ---------------------------------------------------------------- bounds
MaxSockets == 2      \* transports that may be live (not CLOSED) at once
MaxIntervals == 2    \* live setInterval handles per kind
MaxListeners == 2    \* listeners registered per event kind

\* ------------------------------------------------------------- constants
NULL == 0

SocketIds == 1..MaxSockets
IntervalIds == 1..MaxIntervals

VARIABLES
  socket,                            \* this.socket: a socket id or NULL
  readyState,                        \* ws readyState of every transport slot
  heartbeatInterval,                 \* this.heartbeatInterval: handle or NULL
  tankInformationRequestInterval,    \* handle or NULL
  batteryInformationRequestInterval, \* handle or NULL
  intervals,                         \* scheduled setInterval timers <<kind, handle>>
  reconnectTimers,                   \* pending setTimeout(() => this.connect())
  errorListeners,
  tankInformationUpdateListeners,
  batteryInformationUpdateListeners,
  tankInformationStore,
  batteryInformationStore,
  disconnectRequested,               \* history: disconnect() called, no explicit connect() since
  last                               \* what the last operation did (observable outputs)

vars == <<socket, readyState, heartbeatInterval, tankInformationRequestInterval,
          batteryInformationRequestInterval, intervals, reconnectTimers,
          errorListeners, tankInformationUpdateListeners,
          batteryInformationUpdateListeners, tankInformationStore,
          batteryInformationStore, disconnectRequested, last>>

sessionVars == <<socket, readyState, heartbeatInterval, tankInformationRequestInterval,
                 batteryInformationRequestInterval, intervals, reconnectTimers,
                 disconnectRequested>>
listenerVars == <<errorListeners, tankInformationUpdateListeners,
                  batteryInformationUpdateListeners>>
storeVars == <<tankInformationStore, batteryInformationStore>>

\* ------------------------------------------------------------ JS values
\* A JavaScript value as it appears in a decoded frame or in a record.
\* Numbers are rationals n/d so that the division by 255 stays exact.
Undefined == [t |-> "undefined", n |-> 0, d |-> 1, s |-> "", b |-> FALSE]
NaN == [t |-> "NaN", n |-> 0, d |-> 1, s |-> "", b |-> FALSE]
Null == [t |-> "null", n |-> 0, d |-> 1, s |-> "", b |-> FALSE]
Num(x) == [t |-> "number", n |-> x, d |-> 1, s |-> "", b |-> FALSE]
Str(x) == [t |-> "string", n |-> 0, d |-> 1, s |-> x, b |-> FALSE]
Bool(x) == [t |-> "boolean", n |-> 0, d |-> 1, s |-> "", b |-> x]

\* JS `v / k` for a positive integer literal k: a number is divided,
\* undefined (a missing property) gives NaN, null counts as 0.
Divide(v, k) ==
  CASE v.t = "number" -> [v EXCEPT !.d = v.d * k]
    [] v.t = "null" -> Num(0)
    [] OTHER -> NaN

\* The key under which `store[v] = ...` files a value.
PropertyKey(v) ==
  CASE v.t = "string" -> v.s
    [] OTHER -> v.t

\* ------------------------------------------------------------ frames
\* A decoded JSON object: every property the client reads, Undefined when
\* the property is missing from the object.
NoFields ==
  [class |-> Undefined,
   tank_auto_switch_mode |-> Undefined, tank_capacity |-> Undefined,
   tank_level |-> Undefined, tank_module_id |-> Undefined,
   tank_type |-> Undefined, tank_valve_state |-> Undefined,
   battery_current |-> Undefined, battery_health_level |-> Undefined,
   battery_module_id |-> Undefined, battery_state_of_charge |-> Undefined,
   battery_type |-> Undefined, battery_voltage_level |-> Undefined]

\* A raw text frame: either plain text that is not JSON, or the
\* serialisation of a JSON value (null, or an object with its fields).
TextFrame(txt) == [json |-> FALSE, text |-> txt, isNull |-> FALSE, fields |-> NoFields]
JsonNullFrame == [json |-> TRUE, text |-> "null", isNull |-> TRUE, fields |-> NoFields]
JsonObjectFrame(obj) == [json |-> TRUE, text |-> "{...}", isNull |-> FALSE, fields |-> obj]

TankObject(name, level) ==
  [NoFields EXCEPT !.class = Str("Tank"),
     !.tank_type = Str(name), !.tank_level = Num(level),
     !.tank_capacity = Num(200), !.tank_auto_switch_mode = Bool(level > 10),
     !.tank_valve_state = Str("CLOSED"), !.tank_module_id = Num(1)]

BatteryObject(name, soc) ==
  [NoFields EXCEPT !.class = Str("Battery"),
     !.battery_type = Str(name), !.battery_voltage_level = Num(12),
     !.battery_current = Num(3), !.battery_state_of_charge = soc,
     !.battery_health_level = Str("GREEN"), !.battery_module_id = Num(2)]

TankNames == {"EP_1", "EP_2"}
TankLevels == {7, 42}
BatteryNames == {"GE_TD"}
BatteryCharges == {Undefined, Num(0), Num(191)}

KeepAlive == TextFrame("ALIVE")
MalformedFrames == {TextFrame("garbage"), TextFrame("alive")}
\* Two readings of one tank (an overwrite) and one reading of another.
TankFrames ==
  {JsonObjectFrame(TankObject(nm, l)) : nm \in {"EP_1"}, l \in TankLevels}
    \cup {JsonObjectFrame(TankObject(nm, 7)) : nm \in TankNames}
BatteryFrames == {JsonObjectFrame(BatteryObject(nm, c)) : nm \in BatteryNames, c \in BatteryCharges}
UnrecognizedFrames ==
  {JsonObjectFrame(NoFields),
   JsonObjectFrame([NoFields EXCEPT !.class = Str("Engine")]),
   JsonObjectFrame([NoFields EXCEPT !.class = Str("tank")])}
Frames ==
  {KeepAlive, JsonNullFrame} \cup MalformedFrames \cup TankFrames
    \cup BatteryFrames \cup UnrecognizedFrames

\* Outbound frames: the text ALIVE, or the JSON text of a fetch_map request.
AliveFrame == [text |-> "ALIVE", cmd |-> "", params |-> "", callback_id |-> NULL]
FetchMap(category, id) ==
  [text |-> "json", cmd |-> "fetch_map", params |-> category, callback_id |-> id]

\* What a listener does when invoked.
ListenerBehaviours == {"returns", "throws"}

\* ------------------------------------------------------- initial state
\* What an operation that produced no output leaves in `last`.
Quiet(op, s) ==
  [op |-> op, sock |-> s, frame |-> <<>>, sent |-> <<>>, errorOut |-> <<>>,
   debugOut |-> <<>>, tankCalls |-> <<>>, batteryCalls |-> <<>>,
   errorCalls |-> <<>>, uncaught |-> FALSE, scheduled |-> 0]

EmptyStore == [k \in {} |-> Undefined]

Init ==
  /\ socket = NULL
  /\ readyState = [s \in SocketIds |-> "CLOSED"]
  /\ heartbeatInterval = NULL
  /\ tankInformationRequestInterval = NULL
  /\ batteryInformationRequestInterval = NULL
  /\ intervals = {}
  /\ reconnectTimers = 0
  /\ errorListeners = <<>>
  /\ tankInformationUpdateListeners = <<>>
  /\ batteryInformationUpdateListeners = <<>>
  /\ tankInformationStore = EmptyStore
  /\ batteryInformationStore = EmptyStore
  /\ disconnectRequested = FALSE
  /\ last = Quiet("new", NULL)

\* ------------------------------------------------------------ transport
\* Transports that are not CLOSED: their events may still be delivered.
LiveSockets == {s \in SocketIds : readyState[s] # "CLOSED"}

\* new WebSocket(url): a transport object in state CONNECTING.  A slot whose
\* transport is CLOSED (its close event was delivered, or it was never used)
\* stands for the new object.
NewWebSocket == CHOOSE s \in SocketIds :
  /\ readyState[s] = "CLOSED"
  /\ \A r \in SocketIds : r < s => readyState[r] # "CLOSED"

\* ws close(): starts the closing handshake of a CONNECTING or OPEN
\* transport, and does nothing on one that is CLOSING or CLOSED.
WsClose(rs, s) ==
  IF rs[s] \in {"CONNECTING", "OPEN"} THEN [rs EXCEPT ![s] = "CLOSING"] ELSE rs

\* ------------------------------------------------------------ intervals
\* setInterval returns a handle that no scheduled timer of the kind uses.
SetInterval(ivs, kind) == CHOOSE h \in IntervalIds :
  /\ <<kind, h>> \notin ivs
  /\ \A g \in IntervalIds : g < h => <<kind, g>> \in ivs

ClearInterval(ivs, kind, h) == ivs \ {<<kind, h>>}

HasRoom(kind) == \E h \in IntervalIds : <<kind, h>> \notin intervals

\* stopHeartbeat / stopTankInformationRequest / stopBatteryInformationRequest:
\* the timers left after clearing the recorded handle, if one is recorded.
StopInterval(ivs, kind, field) ==
  IF field # NULL THEN ClearInterval(ivs, kind, field) ELSE ivs

\* Mutant: the readyState test left out.
MaySendWithoutStateTest == socket # NULL

\* The body of every interval callback: send only on an OPEN current socket.
MaySend == socket # NULL /\ readyState[socket] = "OPEN"

\* ---------------------------------------------------------- connect()
DoConnect ==
  /\ socket' = NewWebSocket
  /\ readyState' = [readyState EXCEPT ![NewWebSocket] = "CONNECTING"]
  /\ UNCHANGED <<heartbeatInterval, tankInformationRequestInterval,
                 batteryInformationRequestInterval, intervals>>

\* connect() called by the owner of the client.
Connect ==
  /\ Cardinality(LiveSockets) + reconnectTimers < MaxSockets
  /\ DoConnect
  /\ disconnectRequested' = FALSE
  /\ last' = Quiet("connect", NewWebSocket)
  /\ UNCHANGED <<reconnectTimers, listenerVars, storeVars>>

\* The reconnect timeout fires: setTimeout(() => this.connect(), ...).
ReconnectFire ==
  /\ reconnectTimers > 0
  /\ DoConnect
  /\ reconnectTimers' = reconnectTimers - 1
  /\ last' = Quiet("reconnect", NewWebSocket)
  /\ UNCHANGED <<disconnectRequested, listenerVars, storeVars>>

\* -------------------------------------------------------- disconnect()
Disconnect ==
  /\ readyState' = IF socket # NULL THEN WsClose(readyState, socket) ELSE readyState
  /\ socket' = NULL
  /\ disconnectRequested' = TRUE
  /\ last' = Quiet("disconnect", socket)
  /\ UNCHANGED <<heartbeatInterval, tankInformationRequestInterval,
                 batteryInformationRequestInterval, intervals, reconnectTimers,
                 listenerVars, storeVars>>

\* --------------------------------------------------------- 'open' event
OpenEvent(s) ==
  /\ readyState[s] = "CONNECTING"
  /\ HasRoom("heartbeat") /\ HasRoom("tank")
  /\ readyState' = [readyState EXCEPT ![s] = "OPEN"]
  /\ heartbeatInterval' = SetInterval(intervals, "heartbeat")
  /\ tankInformationRequestInterval' = SetInterval(intervals, "tank")
  /\ intervals' = intervals \cup {<<"heartbeat", SetInterval(intervals, "heartbeat")>>,
                                  <<"tank", SetInterval(intervals, "tank")>>}
  /\ last' = [Quiet("open", s) EXCEPT !.debugOut = <<"WebSocket connected.">>]
  /\ UNCHANGED <<socket, batteryInformationRequestInterval, reconnectTimers,
                 disconnectRequested, listenerVars, storeVars>>

\* -------------------------------------------------------- 'close' event
\* Mutant: the test of this.socket inverted.
ScheduleReconnectInverted(sock) == IF sock = NULL THEN 1 ELSE 0

\* The number of reconnect timeouts the close handler schedules.
ScheduleReconnect(sock) == IF sock # NULL THEN 1 ELSE 0

CloseEvent(s) ==
  /\ readyState[s] \in {"OPEN", "CLOSING"}
  /\ readyState' = [readyState EXCEPT ![s] = "CLOSED"]
  /\ intervals' = StopInterval(StopInterval(intervals, "heartbeat", heartbeatInterval),
                               "tank", tankInformationRequestInterval)
  /\ heartbeatInterval' = NULL
  /\ tankInformationRequestInterval' = NULL
  /\ reconnectTimers' = reconnectTimers + ScheduleReconnect(socket)
  /\ last' = [Quiet("close", s) EXCEPT
                !.errorOut = <<"WebSocket closed">>,
                !.debugOut = IF socket # NULL THEN <<"will try to reconnect">> ELSE <<>>,
                !.scheduled = ScheduleReconnect(socket)]
  /\ UNCHANGED <<socket, batteryInformationRequestInterval, disconnectRequested,
                 listenerVars, storeVars>>

\* The peer starts the closing handshake: the transport is CLOSING until
\* its close event is delivered.
PeerClosing(s) ==
  /\ readyState[s] = "OPEN"
  /\ readyState' = [readyState EXCEPT ![s] = "CLOSING"]
  /\ last' = Quiet("peerClosing", s)
  /\ UNCHANGED <<socket, heartbeatInterval, tankInformationRequestInterval,
                 batteryInformationRequestInterval, intervals, reconnectTimers,
                 disconnectRequested, listenerVars, storeVars>>

\* ------------------------------------------------------------- dispatch
\* Array.prototype.forEach over a listener list: the listeners are invoked
\* in order; an exception thrown by one of them leaves forEach at once.
FirstThrowing(listeners) ==
  IF \E i \in 1..Len(listeners) : listeners[i] = "throws"
  THEN CHOOSE i \in 1..Len(listeners) :
         /\ listeners[i] = "throws"
         /\ \A j \in 1..(i - 1) : listeners[j] # "throws"
  ELSE 0

\* The last listener that forEach reaches.
LastInvoked(listeners) ==
  IF FirstThrowing(listeners) = 0 THEN Len(listeners) ELSE FirstThrowing(listeners)

\* Mutant: the list walked from its end.
ForEachReversed(listeners, arg) ==
  [calls |-> [i \in 1..Len(listeners) |->
                [listener |-> Len(listeners) + 1 - i, arg |-> arg]],
   threw |-> FirstThrowing(listeners) # 0]

ForEach(listeners, arg) ==
  [calls |-> [i \in 1..LastInvoked(listeners) |-> [listener |-> i, arg |-> arg]],
   threw |-> FirstThrowing(listeners) # 0]

notifyTankInformationUpdateListeners(tankInformation) ==
  ForEach(tankInformationUpdateListeners, tankInformation)

notifyBatteryInformationUpdateListeners(batteryInformation) ==
  ForEach(batteryInformationUpdateListeners, batteryInformation)

notifyErrorListeners(error) == ForEach(errorListeners, error)

\* -------------------------------------------------------- 'error' event
ErrorEvent(s) ==
  /\ readyState[s] \in {"CONNECTING", "OPEN", "CLOSING"}
  /\ readyState' = [readyState EXCEPT ![s] = "CLOSING"]
  /\ last' = [Quiet("error", s) EXCEPT
                !.errorOut = <<"WebSocket error">>,
                !.errorCalls = notifyErrorListeners("Error").calls,
                !.uncaught = notifyErrorListeners("Error").threw]
  /\ UNCHANGED <<socket, heartbeatInterval, tankInformationRequestInterval,
                 batteryInformationRequestInterval, intervals, reconnectTimers,
                 disconnectRequested, listenerVars, storeVars>>

\* ------------------------------------------------------ interval ticks
\* The callback of a scheduled heartbeat interval runs.
HeartbeatTick(h) ==
  /\ <<"heartbeat", h>> \in intervals
  /\ last' = IF MaySend
             THEN [Quiet("heartbeatTick", socket) EXCEPT
                     !.sent = <<AliveFrame>>, !.debugOut = <<"Sent: ALIVE">>]
             ELSE Quiet("heartbeatTick", socket)
  /\ UNCHANGED <<sessionVars, listenerVars, storeVars>>

\* The callback of a scheduled tank-request interval runs.
TankRequestTick(h) ==
  /\ <<"tank", h>> \in intervals
  /\ last' = IF MaySend
             THEN [Quiet("tankRequestTick", socket) EXCEPT
                     !.sent = <<FetchMap("Tanks", 1)>>,
                     !.debugOut = <<"Sent: Tank information request">>]
             ELSE Quiet("tankRequestTick", socket)
  /\ UNCHANGED <<sessionVars, listenerVars, storeVars>>

\* startBatteryInformationRequest: the interval it would schedule.  No
\* handler calls it, so no action of the client schedules a battery timer.
startBatteryInformationRequest(ivs) == ivs \cup {<<"battery", SetInterval(ivs, "battery")>>}

\* The frame a battery-request interval would send.
BatteryRequestFrame == FetchMap("Battery", 2)

\* --------------------------------------------------------- registration
addErrorListener(b) ==
  /\ Len(errorListeners) < MaxListeners
  /\ errorListeners' = Append(errorListeners, b)
  /\ last' = Quiet("addErrorListener", NULL)
  /\ UNCHANGED <<sessionVars, storeVars, tankInformationUpdateListeners,
                 batteryInformationUpdateListeners>>

addTankInformationUpdateListener(b) ==
  /\ Len(tankInformationUpdateListeners) < MaxListeners
  /\ tankInformationUpdateListeners' = Append(tankInformationUpdateListeners, b)
  /\ last' = Quiet("addTankInformationUpdateListener", NULL)
  /\ UNCHANGED <<sessionVars, storeVars, errorListeners,
                 batteryInformationUpdateListeners>>

addBatteryInformationUpdateListener(b) ==
  /\ Len(batteryInformationUpdateListeners) < MaxListeners
  /\ batteryInformationUpdateListeners' = Append(batteryInformationUpdateListeners, b)
  /\ last' = Quiet("addBatteryInformationUpdateListener", NULL)
  /\ UNCHANGED <<sessionVars, storeVars, errorListeners,
                 tankInformationUpdateListeners>>

\* -------------------------------------------------------- frame handling
\* JSON.parse(data): the decoded value, or a SyntaxError.
JSONParse(data) ==
  IF data.json
  THEN [ok |-> TRUE, isNull |-> data.isNull, fields |-> data.fields]
  ELSE [ok |-> FALSE, isNull |-> FALSE, fields |-> NoFields]

convertTankLevelMessageToTankInformation(tankLevelMessage) ==
  [name |-> tankLevelMessage.tank_type,
   level |-> tankLevelMessage.tank_level,
   capacity |-> tankLevelMessage.tank_capacity,
   autoSwitchMode |-> tankLevelMessage.tank_auto_switch_mode,
   valveState |-> tankLevelMessage.tank_valve_state,
   moduleId |-> tankLevelMessage.tank_module_id]

convertBatteryMessageToBatterInformationRecord(batteryMessage) ==
  [name |-> batteryMessage.battery_type,
   voltage |-> batteryMessage.battery_voltage_level,
   current |-> batteryMessage.battery_current,
   stateOfCharge |-> Divide(batteryMessage.battery_state_of_charge, 255),
   healthLevel |-> batteryMessage.battery_health_level,
   moduleId |-> batteryMessage.battery_module_id]

\* Mutant: an entry that exists is kept (first write wins).
PutIfAbsent(store, key, record) ==
  IF key \in DOMAIN store
  THEN store
  ELSE [k \in DOMAIN store \cup {key} |-> IF k = key THEN record ELSE store[k]]

\* store[key] = record
Put(store, key, record) ==
  [k \in DOMAIN store \cup {key} |-> IF k = key THEN record ELSE store[k]]

\* The outcome of a handler below: the stores it leaves, the listener calls
\* it made, and whether an exception left it.
Outcome(tanks, batteries, tankCalls, batteryCalls, threw) ==
  [tankStore |-> tanks, batteryStore |-> batteries, tankCalls |-> tankCalls,
   batteryCalls |-> batteryCalls, threw |-> threw]

handleTankMessage(tankLevelMessage) ==
  LET tankInformation == convertTankLevelMessageToTankInformation(tankLevelMessage)
      notified == notifyTankInformationUpdateListeners(tankInformation)
  IN Outcome(Put(tankInformationStore, PropertyKey(tankLevelMessage.tank_type),
                 tankInformation),
             batteryInformationStore, notified.calls, <<>>, notified.threw)

handleBatteryMessage(batteryMessage) ==
  LET battteryInformation == convertBatteryMessageToBatterInformationRecord(batteryMessage)
      notified == notifyBatteryInformationUpdateListeners(battteryInformation)
  IN Outcome(tankInformationStore,
             Put(batteryInformationStore, PropertyKey(battteryInformation.name),
                 battteryInformation),
             <<>>, notified.calls, notified.threw)

\* switch (message.class): reading .class of null throws a TypeError.
handleShipControlMessage(message) ==
  CASE message.isNull ->
         Outcome(tankInformationStore, batteryInformationStore, <<>>, <<>>, TRUE)
    [] ~message.isNull /\ message.fields.class = Str("Tank") ->
         handleTankMessage(message.fields)
    [] ~message.isNull /\ message.fields.class = Str("Battery") ->
         handleBatteryMessage(message.fields)
    [] OTHER ->
         Outcome(tankInformationStore, batteryInformationStore, <<>>, <<>>, FALSE)

\* Mutant: the comparison with 'ALIVE' inverted.
CatchReportInverted(data) ==
  IF data = KeepAlive THEN <<"Received non-JSON message">> ELSE <<>>

\* Mutant: the comparison with 'ALIVE' left out.
CatchReportAlways(data) == <<"Received non-JSON message">>

\* The catch block of handleMessage: what it writes to the error output.
CatchReport(data) ==
  IF data # KeepAlive THEN <<"Received non-JSON message">> ELSE <<>>

\* handleMessage(data): the try block up to the exception, then the catch.
handleMessage(data) ==
  LET json == JSONParse(data)
      handled == handleShipControlMessage(json)
  IN IF ~json.ok
     THEN [out |-> Outcome(tankInformationStore, batteryInformationStore,
                           <<>>, <<>>, TRUE),
           debugOut |-> <<>>, errorOut |-> CatchReport(data)]
     ELSE [out |-> handled,
           debugOut |-> <<"Received JSON message">>,
           errorOut |-> IF handled.threw THEN CatchReport(data) ELSE <<>>]

\* The 'message' event of transport s delivers the frame data.
MessageEvent(s, data) ==
  /\ readyState[s] \in {"OPEN", "CLOSING"}
  /\ LET r == handleMessage(data) IN
       /\ tankInformationStore' = r.out.tankStore
       /\ batteryInformationStore' = r.out.batteryStore
       /\ last' = [Quiet("message", s) EXCEPT
                     !.frame = <<data>>,
                     !.errorOut = r.errorOut,
                     !.debugOut = r.debugOut,
                     !.tankCalls = r.out.tankCalls,
                     !.batteryCalls = r.out.batteryCalls]
  /\ UNCHANGED <<sessionVars, listenerVars>>

\* ------------------------------------------------------- specifications
\* The session: connect, disconnect, transport events and timers.
Next ==
  \/ Connect
  \/ Disconnect
  \/ ReconnectFire
  \/ \E s \in SocketIds : OpenEvent(s)
  \/ \E s \in SocketIds : CloseEvent(s)
  \/ \E s \in SocketIds : PeerClosing(s)
  \/ \E s \in SocketIds : ErrorEvent(s)
  \/ \E h \in IntervalIds : HeartbeatTick(h)
  \/ \E h \in IntervalIds : TankRequestTick(h)
  \/ \E b \in ListenerBehaviours : addErrorListener(b)

Spec == Init /\ [][Next]_vars

\* Node runs a pending timeout: the reconnect timer fires.
FairSpec == Spec /\ WF_vars(ReconnectFire)

\* Frame handling on an open session: the session is the one that
\* connect() and the open event of the first transport produce.
InitFrames ==
  /\ socket = 1
  /\ readyState = [s \in SocketIds |-> IF s = 1 THEN "OPEN" ELSE "CLOSED"]
  /\ heartbeatInterval = 1
  /\ tankInformationRequestInterval = 1
  /\ batteryInformationRequestInterval = NULL
  /\ intervals = {<<"heartbeat", 1>>, <<"tank", 1>>}
  /\ reconnectTimers = 0
  /\ errorListeners = <<>>
  /\ tankInformationUpdateListeners = <<>>
  /\ batteryInformationUpdateListeners = <<>>
  /\ tankInformationStore = EmptyStore
  /\ batteryInformationStore = EmptyStore
  /\ disconnectRequested = FALSE
  /\ last = [Quiet("open", 1) EXCEPT !.debugOut = <<"WebSocket connected.">>]

NextFrames ==
  \/ \E b \in ListenerBehaviours : addTankInformationUpdateListener(b)
  \/ \E b \in ListenerBehaviours : addBatteryInformationUpdateListener(b)
  \/ \E s \in SocketIds, data \in Frames : MessageEvent(s, data)
  \/ Disconnect
  \/ \E s \in SocketIds : PeerClosing(s)

SpecFrames == InitFrames /\ [][NextFrames]_vars

\* ================================================================ claims
\* The frame that the last 'message' event delivered.
LastFrame == last.frame[1]
IsMessage == last.op = "message"

\* C1: once disconnect() has been called (and connect() has not been called
\* again by the owner), the client makes no connection attempt of its own:
\* no reconnect timeout runs connect().
C1_NoReconnectAfterDisconnect ==
  disconnectRequested => last.op # "reconnect"

\* C2: once disconnect() has been called (and connect() has not been called
\* again by the owner), no operation sends an ALIVE or a fetch_map frame.
C2_NoFrameSentAfterDisconnect ==
  disconnectRequested => last.sent = <<>>

\* C3: a close event delivered while disconnect() has not been called
\* schedules exactly one reconnect timeout, a firing timeout makes exactly
\* one connection attempt (one new CONNECTING transport, which becomes the
\* current one), and while a timeout is pending a connection attempt always
\* follows: retrying never stops.
C3_CloseLeadsToOneReconnect ==
  /\ [][(last'.op = "close" /\ ~disconnectRequested)
          => (reconnectTimers' = reconnectTimers + 1 /\ last'.scheduled = 1)]_vars
  /\ [][last'.op = "reconnect"
          => /\ reconnectTimers' = reconnectTimers - 1
             /\ readyState'[socket'] = "CONNECTING"
             /\ Cardinality({s \in SocketIds : readyState'[s] # "CLOSED"})
                  = Cardinality(LiveSockets) + 1]_vars
  /\ (reconnectTimers > 0) ~> (last.op = "reconnect")

\* C3 witness: a close event that disconnect() did not precede has just been
\* handled for the current transport, and its reconnect timeout is pending.
C3_Witness ==
  /\ last.op = "close"
  /\ ~disconnectRequested
  /\ last.scheduled = 1
  /\ reconnectTimers = 1
  /\ socket # NULL /\ readyState[socket] = "CLOSED"

\* C4: when a listener throws, the listeners registered after it are still
\* invoked for the same event: every registered tank (battery) listener is
\* called for a Tank (Battery) frame.
C4_AllListenersInvoked ==
  /\ (IsMessage /\ LastFrame \in TankFrames)
       => Len(last.tankCalls) = Len(tankInformationUpdateListeners)
  /\ (IsMessage /\ LastFrame \in BatteryFrames)
       => Len(last.batteryCalls) = Len(batteryInformationUpdateListeners)

\* C5: a frame that is neither JSON nor ALIVE gives exactly one report on the
\* error output, no tank or battery listener call, and leaves both stores.
NotJsonNotAlive(data) == ~data.json /\ data.text # "ALIVE"

C5_MalformedFrameReportedOnce ==
  [][(last'.op = "message" /\ NotJsonNotAlive(last'.frame[1]))
       => /\ Len(last'.errorOut) = 1
          /\ last'.tankCalls = <<>>
          /\ last'.batteryCalls = <<>>
          /\ UNCHANGED storeVars]_vars

\* C5 witness: a malformed frame was handled while listeners are registered
\* and the stores hold readings.
C5_Witness ==
  /\ IsMessage /\ NotJsonNotAlive(LastFrame)
  /\ last.errorOut = <<"Received non-JSON message">>
  /\ Len(tankInformationUpdateListeners) > 0
  /\ Len(batteryInformationUpdateListeners) > 0
  /\ DOMAIN tankInformationStore # {}
  /\ DOMAIN batteryInformationStore # {}

\* C6: the inbound frame ALIVE gives no error report and no listener call of
\* any kind, and leaves the stores and the session as they are.
C6_KeepAliveIsSilent ==
  [][(last'.op = "message" /\ last'.frame[1].text = "ALIVE" /\ ~last'.frame[1].json)
       => /\ last'.errorOut = <<>>
          /\ last'.tankCalls = <<>>
          /\ last'.batteryCalls = <<>>
          /\ last'.errorCalls = <<>>
          /\ ~last'.uncaught
          /\ UNCHANGED <<storeVars, sessionVars>>]_vars

\* C6 witness: ALIVE was received on a transport that disconnect() is
\* closing, with listeners registered and readings stored.
C6_Witness ==
  /\ IsMessage /\ LastFrame = KeepAlive
  /\ socket = NULL /\ disconnectRequested
  /\ readyState[last.sock] = "CLOSING"
  /\ Len(tankInformationUpdateListeners) > 0
  /\ DOMAIN tankInformationStore # {}

\* C7: a frame that decodes as JSON and whose class is neither "Tank" nor
\* "Battery" (a frame without class included) is dropped silently: no
\* listener call, no store change, no report on the error output.
NotTankNotBattery(data) ==
  /\ data.json
  /\ data.isNull \/ data.fields.class \notin {Str("Tank"), Str("Battery")}

C7_UnrecognizedFrameDropped ==
  [][(last'.op = "message" /\ NotTankNotBattery(last'.frame[1]))
       => /\ last'.errorOut = <<>>
          /\ last'.tankCalls = <<>>
          /\ last'.batteryCalls = <<>>
          /\ UNCHANGED storeVars]_vars

\* C8: the open event starts the heartbeat timer, the tank-request timer and
\* the battery-request timer.
C8_OpenStartsAllTimers ==
  last.op = "open"
    => /\ <<"heartbeat", heartbeatInterval>> \in intervals
       /\ <<"tank", tankInformationRequestInterval>> \in intervals
       /\ <<"battery", batteryInformationRequestInterval>> \in intervals

\* C9: disconnect() is idempotent: a second call in a row changes nothing,
\* and after every call no transport handle is held and no reconnect is
\* scheduled.
C9_DisconnectIdempotent ==
  /\ [](last.op = "disconnect" => (socket = NULL /\ reconnectTimers = 0))
  /\ [][(last.op = "disconnect" /\ last'.op = "disconnect")
          => UNCHANGED <<sessionVars, listenerVars, storeVars>>]_vars

\* C10: for a valid Tank frame every registered tank listener receives the
\* record whose fields are the frame's fields, unchanged.
C10_EveryTankListenerGetsRecord ==
  (IsMessage /\ LastFrame \in TankFrames)
    => \A i \in 1..Len(tankInformationUpdateListeners) :
         \E c \in 1..Len(last.tankCalls) :
           /\ last.tankCalls[c].listener = i
           /\ last.tankCalls[c].arg.name = LastFrame.fields.tank_type
           /\ last.tankCalls[c].arg.level = LastFrame.fields.tank_level
           /\ last.tankCalls[c].arg.capacity = LastFrame.fields.tank_capacity
           /\ last.tankCalls[c].arg.autoSwitchMode = LastFrame.fields.tank_auto_switch_mode
           /\ last.tankCalls[c].arg.valveState = LastFrame.fields.tank_valve_state
           /\ last.tankCalls[c].arg.moduleId = LastFrame.fields.tank_module_id

\* C11: for a Battery frame the stored record's stateOfCharge is the raw
\* battery_state_of_charge divided by 255, and it is null when the frame has
\* no battery_state_of_charge (never 0, never NaN).
C11_StateOfChargeRatioOrNull ==
  (IsMessage /\ LastFrame \in BatteryFrames)
    => LET raw == LastFrame.fields.battery_state_of_charge
           record == batteryInformationStore[LastFrame.fields.battery_type.s]
       IN /\ raw.t = "number"
               => record.stateOfCharge = [raw EXCEPT !.d = 255]
          /\ raw.t = "undefined" => record.stateOfCharge = Null
          /\ \A c \in 1..Len(last.batteryCalls) :
               last.batteryCalls[c].arg.stateOfCharge = record.stateOfCharge

\* C12: disconnect() itself cancels all timers: right after it returns no
\* heartbeat timer and no data-request timer is scheduled.
C12_DisconnectCancelsTimers ==
  last.op = "disconnect"
    => /\ intervals = {}
       /\ heartbeatInterval = NULL
       /\ tankInformationRequestInterval = NULL
       /\ batteryInformationRequestInterval = NULL

\* C13: whenever the session is not Open (the current transport is absent
\* or not OPEN) no heartbeat timer and no data-request timer is scheduled.
C13_TimersOnlyWhileOpen ==
  ~MaySend => intervals = {}

\* C14: an error event reports once on the error output and notifies every
\* registered error listener, and changes nothing else: the transport
\* handle, the timers, the stores and the pending reconnects stay.
C14_ErrorEventOnlyNotifies ==
  [][last'.op = "error"
       => /\ Len(last'.errorOut) = 1
          /\ Len(last'.errorCalls) = Len(errorListeners)
          /\ \A i \in 1..Len(last'.errorCalls) : last'.errorCalls[i].listener = i
          /\ UNCHANGED <<socket, heartbeatInterval, tankInformationRequestInterval,
                         batteryInformationRequestInterval, intervals,
                         reconnectTimers, storeVars, listenerVars>>]_vars

\* C15: the stores are last-write-wins and never evict: a Tank (Battery)
\* frame leaves under its name the record translated from that frame and
\* leaves every other entry and the other store as they were; no step
\* removes an entry, and no other step changes a store.
C15_StoresLastWriteWins ==
  [][/\ DOMAIN tankInformationStore \subseteq DOMAIN tankInformationStore'
     /\ DOMAIN batteryInformationStore \subseteq DOMAIN batteryInformationStore'
     /\ (last'.op = "message" /\ last'.frame[1] \in TankFrames)
          => LET f == last'.frame[1].fields IN
               /\ DOMAIN tankInformationStore'
                    = DOMAIN tankInformationStore \cup {f.tank_type.s}
               /\ tankInformationStore'[f.tank_type.s]
                    = convertTankLevelMessageToTankInformation(f)
               /\ \A k \in DOMAIN tankInformationStore \ {f.tank_type.s} :
                    tankInformationStore'[k] = tankInformationStore[k]
               /\ UNCHANGED batteryInformationStore
     /\ (last'.op = "message" /\ last'.frame[1] \in BatteryFrames)
          => LET f == last'.frame[1].fields IN
               /\ DOMAIN batteryInformationStore'
                    = DOMAIN batteryInformationStore \cup {f.battery_type.s}
               /\ batteryInformationStore'[f.battery_type.s]
                    = convertBatteryMessageToBatterInformationRecord(f)
               /\ \A k \in DOMAIN batteryInformationStore \ {f.battery_type.s} :
                    batteryInformationStore'[k] = batteryInformationStore[k]
               /\ UNCHANGED tankInformationStore
     /\ ~(last'.op = "message" /\ last'.frame[1] \in TankFrames \cup BatteryFrames)
          => UNCHANGED storeVars]_vars

\* C15 witness: a Tank frame was stored although the first tank listener
\* throws, while both tank names and a battery already have entries.
C15_Witness ==
  /\ IsMessage /\ LastFrame \in TankFrames
  /\ DOMAIN tankInformationStore = TankNames
  /\ DOMAIN batteryInformationStore # {}
  /\ tankInformationStore[LastFrame.fields.tank_type.s].level = LastFrame.fields.tank_level
  /\ Len(tankInformationUpdateListeners) > 0
  /\ tankInformationUpdateListeners[1] = "throws"

\* The listener list after a step: unchanged, or one listener appended.
AppendOnly(before, after) ==
  \/ after = before
  \/ /\ Len(after) = Len(before) + 1
     /\ SubSeq(after, 1, Len(before)) = before

\* The calls of one dispatch follow the registration order: the i-th call
\* is to the i-th registered listener.
InRegistrationOrder(calls, listeners) ==
  /\ Len(calls) <= Len(listeners)
  /\ \A i \in 1..Len(calls) : calls[i].listener = i

\* C16: registration only appends; the listeners of a kind are invoked in
\* registration order; and the calls made for a frame all carry the record
\* of that frame (a frame is dispatched completely before the next one).
C16_DispatchInRegistrationOrder ==
  /\ [][/\ AppendOnly(tankInformationUpdateListeners, tankInformationUpdateListeners')
        /\ AppendOnly(batteryInformationUpdateListeners, batteryInformationUpdateListeners')
        /\ AppendOnly(errorListeners, errorListeners')]_vars
  /\ [](/\ InRegistrationOrder(last.tankCalls, tankInformationUpdateListeners)
        /\ InRegistrationOrder(last.batteryCalls, batteryInformationUpdateListeners)
        /\ InRegistrationOrder(last.errorCalls, errorListeners)
        /\ \A c \in 1..Len(last.tankCalls) :
             /\ IsMessage /\ LastFrame \in TankFrames
             /\ last.tankCalls[c].arg
                  = convertTankLevelMessageToTankInformation(LastFrame.fields)
        /\ \A c \in 1..Len(last.batteryCalls) :
             /\ IsMessage /\ LastFrame \in BatteryFrames
             /\ last.batteryCalls[c].arg
                  = convertBatteryMessageToBatterInformationRecord(LastFrame.fields))

\* C16 witness: a Tank frame was dispatched to two registered listeners.
C16_Witness ==
  /\ IsMessage /\ LastFrame \in TankFrames
  /\ Len(tankInformationUpdateListeners) >= 2
  /\ Len(last.tankCalls) >= 2
  /\ last.tankCalls[1].listener = 1
  /\ last.tankCalls[2].listener = 2

\* Transports of the instance that are Connecting or Open.
ConnectingOrOpen == {s \in SocketIds : readyState[s] \in {"CONNECTING", "OPEN"}}

\* C17: at most one transport created by the instance is Connecting or Open
\* at any time.
C17_SingleLiveTransport ==
  Cardinality(ConnectingOrOpen) <= 1

\* C18: no interval handle is leaked: at most one heartbeat interval and at
\* most one tank-request interval is scheduled, and a scheduled interval is
\* the one recorded in heartbeatInterval / tankInformationRequestInterval.
C18_NoLeakedInterval ==
  \A iv \in intervals :
    /\ iv[1] = "heartbeat" => iv[2] = heartbeatInterval
    /\ iv[1] = "tank" => iv[2] = tankInformationRequestInterval
    /\ iv[1] = "battery" => iv[2] = batteryInformationRequestInterval

\* C19: the close event of a transport that is not the current one, handled
\* while the current transport is OPEN, leaves the current session's
\* heartbeat and tank-request timers scheduled and schedules no reconnect.
C19_StaleCloseLeavesSession ==
  [][(/\ last'.op = "close"
      /\ last'.sock # socket
      /\ MaySend
      /\ <<"heartbeat", heartbeatInterval>> \in intervals
      /\ <<"tank", tankInformationRequestInterval>> \in intervals)
       => /\ UNCHANGED <<heartbeatInterval, tankInformationRequestInterval>>
          /\ <<"heartbeat", heartbeatInterval>> \in intervals'
          /\ <<"tank", tankInformationRequestInterval>> \in intervals'
          /\ reconnectTimers' = reconnectTimers]_vars

\* C20: 'Received non-JSON message' is reported only for frames that fail
\* JSON decoding: a frame that decodes as JSON is never reported so.
C20_NonJsonReportOnlyForNonJson ==
  (IsMessage /\ LastFrame.json) => last.errorOut = <<>>
\* C21: an outbound frame is sent only by an interval callback, on the
\* current transport and while that transport is OPEN; a callback that runs
\* while the handle is absent or the transport is not OPEN sends nothing.
C21_SendOnlyOnOpenCurrentTransport ==
  /\ last.sent # <<>>
       => /\ last.op \in {"heartbeatTick", "tankRequestTick"}
          /\ socket # NULL
          /\ last.sock = socket
          /\ readyState[socket] = "OPEN"
  /\ (last.op \in {"heartbeatTick", "tankRequestTick"}
        /\ (socket = NULL \/ readyState[socket] # "OPEN"))
       => last.sent = <<>>

\* C21 witness: a heartbeat was sent on the current OPEN transport while a
\* replaced transport of the instance is OPEN as well.
C21_Witness ==
  /\ last.op = "heartbeatTick"
  /\ last.sent = <<AliveFrame>>
  /\ last.sock = socket
  /\ \E s \in SocketIds : s # socket /\ readyState[s] = "OPEN"

\* C21 second case: a tank-request callback ran after disconnect() and
\* sent nothing.
C21_SilentTick ==
  /\ last.op = "tankRequestTick"
  /\ socket = NULL
  /\ last.sent = <<>>
====
